---- MODULE Spec2Model ----
(***************************************************************************)
(* dogeplot: the Git history cleaner.                                      *)
(*                                                                         *)
(*   src/clean_git_history.py  GitHistoryCleaner (scan_commit,             *)
(*                             scan_history, clean_history) and main       *)
(*   src/clean_repo.py         the filter-repo callbacks clean_message and *)
(*                             clean_blob over the byte patterns           *)
(*                                                                         *)
(* Text is a sequence of characters, each a one-character string; the      *)
(* bytes 0x00, 0x0b and 0xff are written "\\x00", "\\x0b" and "\\xff".     *)
(* Python's re is modelled as the backtracking matcher it is: Ends gives   *)
(* the end positions of a pattern at a start position in the order the     *)
(* engine tries them, so its head is the match re returns.                 *)
(***************************************************************************)
EXTENDS Naturals, Integers, Sequences, FiniteSets, TLC

(* ------------------------------ characters ------------------------------ *)

LowerSeq == <<"a", "b", "c", "d", "e", "f", "g", "h", "i", "j", "k", "l", "m",
              "n", "o", "p", "q", "r", "s", "t", "u", "v", "w", "x", "y", "z">>
UpperSeq == <<"A", "B", "C", "D", "E", "F", "G", "H", "I", "J", "K", "L", "M",
              "N", "O", "P", "Q", "R", "S", "T", "U", "V", "W", "X", "Y", "Z">>
Lower == {"a", "b", "c", "d", "e", "f", "g", "h", "i", "j", "k", "l", "m",
          "n", "o", "p", "q", "r", "s", "t", "u", "v", "w", "x", "y", "z"}
Upper == {"A", "B", "C", "D", "E", "F", "G", "H", "I", "J", "K", "L", "M",
          "N", "O", "P", "Q", "R", "S", "T", "U", "V", "W", "X", "Y", "Z"}
Digit == {"0", "1", "2", "3", "4", "5", "6", "7", "8", "9"}
Alnum == Lower \cup Upper \cup Digit
\* \w of an ASCII pattern, and of a str pattern over ASCII text
Word == Alnum \cup {"_"}
\* \s: space, \t, \n, \r, \f, \v
Space == {" ", "\t", "\n", "\r", "\f", "\\x0b"}
HexLower == {"a", "b", "c", "d", "e", "f"} \cup Digit

\* a letter in its two cases
CasePairs == [j \in DOMAIN LowerSeq |-> {LowerSeq[j], UpperSeq[j]}]

\* both cases of a character, as (?i) compares them
BothCases(c) ==
    IF \E j \in DOMAIN CasePairs : c \in CasePairs[j]
    THEN CasePairs[CHOOSE j \in DOMAIN CasePairs : c \in CasePairs[j]]
    ELSE {c}

\* str.lower() of one character
LowerChar(c) ==
    IF \E j \in DOMAIN UpperSeq : UpperSeq[j] = c
    THEN LowerSeq[CHOOSE j \in DOMAIN UpperSeq : UpperSeq[j] = c]
    ELSE c

Times(c, n) == [i \in 1..n |-> c]

RECURSIVE Concat(_)
Concat(ss) == IF ss = <<>> THEN <<>> ELSE Head(ss) \o Concat(Tail(ss))

(* --------------------------- regular expressions ------------------------ *)

\* hi of an unbounded repetition ({n,}, * and +)
NoMax == 0 - 1

Node(t, cs, rs, lo, hi) == [t |-> t, cs |-> cs, rs |-> rs, lo |-> lo, hi |-> hi]
In(S)         == Node("set", S, <<>>, 0, 0)          \* [...]
NotIn(S)      == Node("nset", S, <<>>, 0, 0)         \* [^...]
Cat(rs)       == Node("cat", {}, rs, 0, 0)           \* r1 r2 ...
Alt(rs)       == Node("alt", {}, rs, 0, 0)           \* r1 | r2 | ...
Rep(r, lo, hi) == Node("rep", {}, <<r>>, lo, hi)     \* r{lo,hi}, greedy
Opt(r)        == Rep(r, 0, 1)                        \* r?
Star(r)       == Rep(r, 0, NoMax)                    \* r*
Plus(r)       == Rep(r, 1, NoMax)                    \* r+
AtLeast(r, n) == Rep(r, n, NoMax)                    \* r{n,}
Exactly(r, n) == Rep(r, n, n)                        \* r{n}
Bol           == Node("bol", {}, <<>>, 0, 0)         \* (?m)^
Eol           == Node("eol", {}, <<>>, 0, 0)         \* (?m)$
Dot           == NotIn({"\n"})                       \* .
RECURSIVE Chars(_), IChars(_)
Chars(w)      == IF w = <<>> THEN <<>> ELSE <<In({Head(w)})>> \o Chars(Tail(w))
IChars(w)     == IF w = <<>> THEN <<>> ELSE <<In(BothCases(Head(w)))>> \o IChars(Tail(w))
Lit(w)        == Cat(Chars(w))                       \* the characters of w
ILit(w)       == Cat(IChars(w))                      \* the same under (?i)

RECURSIVE Ends(_, _, _), CatEnds(_, _, _, _), AltEnds(_, _, _, _),
          RepEnds(_, _, _, _, _), CatRest(_, _, _, _, _, _), RepRest(_, _, _, _, _, _, _)

\* The end positions (the index after the last matched character) of r
\* started at position i of s, in the order the backtracking matcher
\* reaches them.
Ends(r, s, i) ==
    CASE r.t = "set"  -> IF i <= Len(s) /\ s[i] \in r.cs THEN <<i + 1>> ELSE <<>>
      [] r.t = "nset" -> IF i <= Len(s) /\ s[i] \notin r.cs THEN <<i + 1>> ELSE <<>>
      [] r.t = "bol"  -> IF i = 1 \/ (i > 1 /\ s[i - 1] = "\n") THEN <<i>> ELSE <<>>
      [] r.t = "eol"  -> IF i = Len(s) + 1 \/ (i <= Len(s) /\ s[i] = "\n")
                         THEN <<i>> ELSE <<>>
      [] r.t = "cat"  -> CatEnds(r.rs, 1, s, i)
      [] r.t = "alt"  -> AltEnds(r.rs, 1, s, i)
      [] r.t = "rep"  -> RepEnds(r.rs[1], r.lo, r.hi, s, i)

CatEnds(rs, k, s, i) ==
    IF k > Len(rs) THEN <<i>>
    ELSE LET es == Ends(rs[k], s, i) IN CatRest(rs, k, s, es, 1, Len(es))

\* the rest of the concatenation from each of the ends es[a], ..., es[b] of its
\* k-th part, in their order
CatRest(rs, k, s, es, a, b) ==
    IF a > b THEN <<>>
    ELSE IF a = b THEN CatEnds(rs, k + 1, s, es[a])
    ELSE LET m == (a + b) \div 2
         IN  CatRest(rs, k, s, es, a, m) \o CatRest(rs, k, s, es, m + 1, b)

AltEnds(rs, k, s, i) ==
    IF k > Len(rs) THEN <<>> ELSE Ends(rs[k], s, i) \o AltEnds(rs, k + 1, s, i)

\* r{lo,hi} of a one-character class r: every length from the longest run down to lo
ClassEnds(r, lo, hi, s, i) ==
    LET ok(j) == IF r.t = "set" THEN s[j] \in r.cs ELSE s[j] \notin r.cs
        limit == IF hi = NoMax \/ i + hi > Len(s) + 1 THEN Len(s) + 1 ELSE i + hi
        top   == IF \A j \in i..(limit - 1) : ok(j) THEN limit
                 ELSE CHOOSE j \in i..(limit - 1) : ~ok(j) /\ \A m \in i..(j - 1) : ok(m)
    IN  IF top < i + lo THEN <<>> ELSE [m \in 1..(top - (i + lo) + 1) |-> top - m + 1]

\* greedy: one more repetition is tried before stopping
RepEnds(r, lo, hi, s, i) ==
    IF r.t \in {"set", "nset"} THEN ClassEnds(r, lo, hi, s, i)
    ELSE LET es   == Ends(r, s, i)
             more == IF hi = 0 THEN <<>> ELSE RepRest(r, lo, hi, s, es, 1, Len(es))
             stop == IF lo = 0 THEN <<i>> ELSE <<>>
         IN  more \o stop

\* the further repetitions from each of the ends es[a], ..., es[b] of one repetition
RepRest(r, lo, hi, s, es, a, b) ==
    IF a > b THEN <<>>
    ELSE IF a = b
         THEN RepEnds(r, IF lo = 0 THEN 0 ELSE lo - 1,
                      IF hi = NoMax THEN NoMax ELSE hi - 1, s, es[a])
    ELSE LET m == (a + b) \div 2
         IN  RepRest(r, lo, hi, s, es, a, m) \o RepRest(r, lo, hi, s, es, m + 1, b)

\* re.search from position pos: the leftmost start with a match, as <<start, end>>,
\* or <<>> when there is none
Search(r, s, pos) ==
    IF \A p \in pos..(Len(s) + 1) : Ends(r, s, p) = <<>> THEN <<>>
    ELSE LET p == CHOOSE p \in pos..(Len(s) + 1) :
                      Ends(r, s, p) # <<>> /\ \A q \in pos..(p - 1) : Ends(r, s, q) = <<>>
         IN  <<p, Head(Ends(r, s, p))>>

\* re.finditer(pattern, s): the non-overlapping matches, left to right
RECURSIVE finditer(_, _, _)
finditer(r, s, pos) ==
    LET m == Search(r, s, pos)
    IN  IF m = <<>> THEN <<>>
        ELSE <<m>> \o finditer(r, s, IF m[2] = m[1] THEN m[2] + 1 ELSE m[2])

\* re.sub(pattern, repl, s) from position pos
RECURSIVE sub(_, _, _, _)
sub(r, repl, s, pos) ==
    LET m == Search(r, s, pos)
    IN  IF m = <<>> THEN SubSeq(s, pos, Len(s))
        ELSE IF m[2] = m[1]
             THEN SubSeq(s, pos, m[1] - 1) \o repl
                  \o (IF m[1] <= Len(s) THEN <<s[m[1]]>> \o sub(r, repl, s, m[1] + 1)
                      ELSE <<>>)
             ELSE SubSeq(s, pos, m[1] - 1) \o repl \o sub(r, repl, s, m[2])

(* --------------------------- src/clean_repo.py -------------------------- *)

Base64Url == Alnum \cup {"-", "_"}     \* [a-zA-Z0-9-_] and [a-zA-Z0-9_\-]
KeyTail   == Word \cup {"-", "."}      \* [\w\-\.]

patterns == <<
    \* rb'eyJ[a-zA-Z0-9-_]+\.[a-zA-Z0-9-_]+\.[a-zA-Z0-9-_]+'
    Cat(<<Lit(<<"e", "y", "J">>), Plus(In(Base64Url)), In({"."}),
          Plus(In(Base64Url)), In({"."}), Plus(In(Base64Url))>>),
    \* rb'[a-f0-9]{32,}'
    AtLeast(In(HexLower), 32),
    \* rb'(?i)api[_-]?key[_-]?[\w\-\.]+'
    Cat(<<ILit(<<"a", "p", "i">>), Opt(In({"_", "-"})), ILit(<<"k", "e", "y">>),
          Opt(In({"_", "-"})), Plus(In(KeyTail))>>),
    \* rb'(?i)secret[_-]?key[_-]?[\w\-\.]+'
    Cat(<<ILit(<<"s", "e", "c", "r", "e", "t">>), Opt(In({"_", "-"})),
          ILit(<<"k", "e", "y">>), Opt(In({"_", "-"})), Plus(In(KeyTail))>>),
    \* rb'(?i)password[_-]?[\w\-\.]+'
    Cat(<<ILit(<<"p", "a", "s", "s", "w", "o", "r", "d">>), Opt(In({"_", "-"})),
          Plus(In(KeyTail))>>),
    \* rb'(?i)token[_-]?[\w\-\.]+'
    Cat(<<ILit(<<"t", "o", "k", "e", "n">>), Opt(In({"_", "-"})), Plus(In(KeyTail))>>),
    \* rb'sk-[0-9a-zA-Z]{48}'
    Cat(<<Lit(<<"s", "k", "-">>), Exactly(In(Alnum), 48)>>),
    \* rb'xox[p|b|o|a]-[0-9]{12}-[0-9]{12}-[0-9]{12}-[a-z0-9]{32}'
    Cat(<<Lit(<<"x", "o", "x">>), In({"p", "|", "b", "o", "a"}), In({"-"}),
          Exactly(In(Digit), 12), In({"-"}), Exactly(In(Digit), 12), In({"-"}),
          Exactly(In(Digit), 12), In({"-"}), Exactly(In(Lower \cup Digit), 32)>>),
    \* rb'https?://[^/\s]+/x-[a-zA-Z0-9_\-]{24}'
    Cat(<<Lit(<<"h", "t", "t", "p">>), Opt(In({"s"})), Lit(<<":", "/", "/">>),
          Plus(NotIn({"/"} \cup Space)), Lit(<<"/", "x", "-">>),
          Exactly(In(Base64Url), 24)>>),
    \* rb'[a-zA-Z0-9_-]*:[a-zA-Z0-9_\-]+@[a-zA-Z0-9_\-]+\.[a-zA-Z0-9_\-]+'
    Cat(<<Star(In(Base64Url)), In({":"}), Plus(In(Base64Url)), In({"@"}),
          Plus(In(Base64Url)), In({"."}), Plus(In(Base64Url))>>) >>

\* b'***REMOVED***'
REMOVED == <<"*", "*", "*", "R", "E", "M", "O", "V", "E", "D", "*", "*", "*">>

\* re.sub(pattern, b'***REMOVED***', data, count=1): the first match only
clean_pass_count1(pattern, data) ==
    LET m == Search(pattern, data, 1)
    IN  IF m = <<>> THEN data
        ELSE SubSeq(data, 1, m[1] - 1) \o REMOVED \o SubSeq(data, m[2], Len(data))

\* one turn of the loop of clean_message and clean_blob:
\* re.sub(pattern, b'***REMOVED***', data)
clean_pass(pattern, data) == sub(pattern, REMOVED, data, 1)

\* clean_message(message): every pattern in turn, each on the result of the last
RECURSIVE clean_from(_, _)
clean_from(k, data) ==
    IF k > Len(patterns) THEN data ELSE clean_from(k + 1, clean_pass(patterns[k], data))

clean_message(message) == clean_from(1, message)


(* ------------------------ src/clean_git_history.py ---------------------- *)

Quote == Opt(In({"\"", "'"}))                        \* ["\']?
Sep   == Alt(<<In({":"}), In({"="})>>)               \* (?::|=)
Value == In(Word \cup {"-"})                         \* [\w\-]
Sp    == Star(In(Space))                             \* \s*
Us    == Opt(In({"_", "-"}))                         \* [_-]?

\* ["\']?\s*(?::|=)\s*["\']?[\w\-]{n,}["\']?
Assigned(n) == Cat(<<Quote, Sp, Sep, Sp, Quote, AtLeast(Value, n), Quote>>)
\* (?i)VITE_[\w_]*<name>[\w_]*=["\']?[\w\-]{8,}["\']?
Vite(name) ==
    Cat(<<ILit(<<"V", "I", "T", "E", "_">>), Star(In(Word)), ILit(name), Star(In(Word)),
          In({"="}), Quote, AtLeast(Value, 8), Quote>>)

\* self.sensitive_patterns
sensitive_patterns == <<
    \* r'(?i)api[_-]?key["\']?\s*(?::|=)\s*["\']?[\w\-]{16,}["\']?'
    Cat(<<ILit(<<"a", "p", "i">>), Us, ILit(<<"k", "e", "y">>), Assigned(16)>>),
    \* r'(?i)api[_-]?secret["\']?\s*(?::|=)\s*["\']?[\w\-]{16,}["\']?'
    Cat(<<ILit(<<"a", "p", "i">>), Us, ILit(<<"s", "e", "c", "r", "e", "t">>),
          Assigned(16)>>),
    \* r'(?i)openai[_-]?api[_-]?key["\']?\s*(?::|=)\s*["\']?sk-[\w\-]+["\']?'
    Cat(<<ILit(<<"o", "p", "e", "n", "a", "i">>), Us, ILit(<<"a", "p", "i">>), Us,
          ILit(<<"k", "e", "y">>), Quote, Sp, Sep, Sp, Quote,
          ILit(<<"s", "k", "-">>), Plus(Value), Quote>>),
    \* r'(?i)gemini[_-]?api[_-]?key["\']?\s*(?::|=)\s*["\']?[\w\-]{16,}["\']?'
    Cat(<<ILit(<<"g", "e", "m", "i", "n", "i">>), Us, ILit(<<"a", "p", "i">>), Us,
          ILit(<<"k", "e", "y">>), Assigned(16)>>),
    \* r'(?i)congress[_-]?api[_-]?key["\']?\s*(?::|=)\s*["\']?[\w\-]{16,}["\']?'
    Cat(<<ILit(<<"c", "o", "n", "g", "r", "e", "s", "s">>), Us, ILit(<<"a", "p", "i">>),
          Us, ILit(<<"k", "e", "y">>), Assigned(16)>>),
    \* r'(?i)supabase[_-]?(?:url|key)["\']?\s*(?::|=)\s*["\']?[\w\-]{16,}["\']?'
    Cat(<<ILit(<<"s", "u", "p", "a", "b", "a", "s", "e">>), Us,
          Alt(<<ILit(<<"u", "r", "l">>), ILit(<<"k", "e", "y">>)>>), Assigned(16)>>),
    \* r'(?i)token["\']?\s*(?::|=)\s*["\']?[\w\-]{16,}["\']?'
    Cat(<<ILit(<<"t", "o", "k", "e", "n">>), Assigned(16)>>),
    \* r'(?i)secret["\']?\s*(?::|=)\s*["\']?[\w\-]{16,}["\']?'
    Cat(<<ILit(<<"s", "e", "c", "r", "e", "t">>), Assigned(16)>>),
    \* r'(?i)password["\']?\s*(?::|=)\s*["\']?[\w\-]{8,}["\']?'
    Cat(<<ILit(<<"p", "a", "s", "s", "w", "o", "r", "d">>), Assigned(8)>>),
    \* r'(?i)VITE_[\w_]*KEY[\w_]*=["\']?[\w\-]{8,}["\']?'
    Vite(<<"K", "E", "Y">>),
    \* r'(?i)VITE_[\w_]*SECRET[\w_]*=["\']?[\w\-]{8,}["\']?'
    Vite(<<"S", "E", "C", "R", "E", "T">>),
    \* r'(?i)VITE_[\w_]*TOKEN[\w_]*=["\']?[\w\-]{8,}["\']?'
    Vite(<<"T", "O", "K", "E", "N">>),
    \* r'(?i)https?://[^:\s]+:[^@\s]+@[^\s]+'
    Cat(<<ILit(<<"h", "t", "t", "p">>), Opt(In({"s", "S"})), Lit(<<":", "/", "/">>),
          Plus(NotIn({":"} \cup Space)), In({":"}), Plus(NotIn({"@"} \cup Space)),
          In({"@"}), Plus(NotIn(Space))>>),
    \* r'(?m)^\s*(?:export\s+)?[\w_]+=.+$'
    Cat(<<Bol, Sp, Opt(Cat(<<Lit(<<"e", "x", "p", "o", "r", "t">>), Plus(In(Space))>>)),
          Plus(In(Word)), In({"="}), Plus(Dot), Eol>>) >>

\* The patterns under the heading "# API Keys".
ApiKeyPatterns == {1, 2}

\* the same loop with re.match in the place of re.finditer: the start of the text only
found_patterns_match(diff) ==
    {k \in DOMAIN sensitive_patterns : Ends(sensitive_patterns[k], diff, 1) # <<>>}

\* scan_commit's loop over one commit's text: the patterns (by their place in
\* sensitive_patterns) for which re.finditer yields a match. The finding strings
\* "[<commit>] Found pattern: <pattern>" differ only by commit and pattern, and
\* the set keeps one per pattern however many matches there are.
found_patterns(diff) ==
    {k \in DOMAIN sensitive_patterns : finditer(sensitive_patterns[k], diff, 1) # <<>>}

\* self.sensitive_files
sensitive_files == <<
    <<".", "e", "n", "v">>,
    <<".", "e", "n", "v", ".", "l", "o", "c", "a", "l">>,
    <<".", "e", "n", "v", ".", "d", "e", "v", "e", "l", "o", "p", "m", "e", "n", "t">>,
    <<".", "e", "n", "v", ".", "p", "r", "o", "d", "u", "c", "t", "i", "o", "n">>,
    <<".", "e", "n", "v", ".", "s", "t", "a", "g", "i", "n", "g">>,
    <<"c", "r", "e", "d", "e", "n", "t", "i", "a", "l", "s", ".", "j", "s", "o", "n">>,
    <<"c", "o", "n", "f", "i", "g", ".", "j", "s", "o", "n">>,
    <<"s", "e", "c", "r", "e", "t", "s", ".", "j", "s", "o", "n">>,
    <<"*", ".", "k", "e", "y">>,
    <<"*", ".", "p", "e", "m">>,
    <<"*", ".", "p", "f", "x">>,
    <<"*", ".", "p", "1", "2">>,
    <<"*", ".", "k", "e", "y", "s", "t", "o", "r", "e">> >>

\* " ".join(self.sensitive_files): one string
RECURSIVE join(_, _)
join(sep, ws) ==
    IF ws = <<>> THEN <<>>
    ELSE IF Len(ws) = 1 THEN ws[1]
    ELSE ws[1] \o sep \o join(sep, Tail(ws))

sensitive_files_arg == join(<<" ">>, sensitive_files)

\* response.lower()
lower(w) == [j \in DOMAIN w |-> LowerChar(w[j])]

\* response.lower().startswith('y')
said_yes_startswith(response) == response # <<>> /\ LowerChar(response[1]) = "y"

\* response.lower() == 'yes': both prompts of main go on only on this
said_yes(response) == lower(response) = <<"y", "e", "s">>

(* ------------------------------ main() ---------------------------------- *)

VARIABLES
    pc,            \* where main is
    history,       \* the repository: its commits, newest first, each with what
                   \* git show gives for it and the paths of its tree
    answers,       \* what the user typed at the prompts so far
    i,             \* scan_history: the commits scanned so far
    all_findings,  \* scan_history: one set of findings per commit that had any
    out,           \* the lines printed that tell the user an outcome
    backup,        \* "none", "dir" (the directory is there), "bundle" (it is written)
    ran,           \* the commands clean_history has run
    engine_error,  \* some git filter-repo run ended with a nonzero return code
    exit           \* "running", or the exit code of the process: "0", "1"

mvars == <<pc, history, answers, i, all_findings, out, backup, ran, engine_error, exit>>

VARIABLES
    unit,      \* what the engine hands over: "message" or "blob" ("none": no filter run)
    original,  \* the content as it was in the history before the first run
    data,      \* message / blob.data as the loop over patterns leaves it
    before,    \* data as it was before the last turn of the loop
    pass,      \* the index in patterns of the next turn of the loop
    run,       \* 1: the filter run; 2: the run repeated on the rewritten history
    first      \* the content the first run wrote back

rvars == <<unit, original, data, before, pass, run, first>>

VARIABLES
    diff,            \* scan_commit: the text git show gave
    found_sensitive, \* scan_commit: the patterns of the findings
    returned         \* scan_commit has returned

svars == <<diff, found_sensitive, returned>>

vars == <<mvars, rvars, svars>>

IdleMain ==
    /\ pc = "idle" /\ history = <<>> /\ answers = <<>> /\ i = 0 /\ all_findings = <<>>
    /\ out = <<>> /\ backup = "none" /\ ran = <<>> /\ engine_error = FALSE
    /\ exit = "running"
IdleRedact ==
    /\ unit = "none" /\ original = <<>> /\ data = <<>> /\ before = <<>> /\ pass = 0
    /\ run = 0 /\ first = <<>>
IdleScan == diff = <<>> /\ found_sensitive = {} /\ returned = FALSE

MaxCommits == 2

\* What git show gives for a commit: its text, or git fails (CalledProcessError),
\* or the output is not valid in the locale's encoding (universal_newlines=True
\* decodes it: UnicodeDecodeError).
Text(t) == [kind |-> "text", text |-> t]
ShowOutcomes == {
    Text(<<" ", " ", " ", " ", "u", "s", "e", " ", "a", "p", "i", "_", "k", "e", "y", ":",
           " ", "a", "b", "c", "d", "e", "f", "0", "1", "2", "3", "4", "5", "6", "7", "8",
           "9", "\n">>),
    Text(<<" ", " ", " ", " ", "A", "d", "d", " ", "t", "h", "e", " ", "c", "l", "i", "e",
           "n", "t", "\n">>),
    Text(<<" ", " ", " ", " ", "p", "a", "s", "s", "w", "o", "r", "d", "=", "h", "u", "n",
           "t", "e", "r", "2", "2", "\n">>),
    [kind |-> "CalledProcessError", text |-> <<>>],
    [kind |-> "UnicodeDecodeError", text |-> <<>>] }

DotEnv    == <<".", "e", "n", "v">>
AppPy     == <<"a", "p", "p", ".", "p", "y">>
ServerPem == <<"c", "e", "r", "t", "s", "/", "s", "e", "r", "v", "e", "r", ".", "p", "e", "m">>
Trees == {{AppPy}, {AppPy, DotEnv}, {AppPy, ServerPem}}

Commits == [show : ShowOutcomes, tree : Trees]
Histories == UNION {[1..n -> Commits] : n \in 0..MaxCommits}

Responses == {<<"y", "e", "s">>, <<"Y", "e", "s">>, <<"n", "o">>, <<"y">>}

Line(text, commit) == [line |-> text, commit |-> commit]
Printed(text) == \E j \in DOMAIN out : out[j].line = text

Init ==
    /\ pc = "prompt"
    /\ history \in Histories
    /\ answers = <<>>
    /\ i = 0
    /\ all_findings = <<>>
    /\ out = <<>>
    /\ backup = "none"
    /\ ran = <<>>
    /\ engine_error = FALSE
    /\ exit = "running"
    /\ IdleRedact /\ IdleScan

\* response = input("\nDo you want to proceed? (yes/no): ")
AskProceed(response) ==
    /\ pc = "prompt"
    /\ answers' = Append(answers, response)
    /\ IF said_yes(response)
       THEN /\ pc' = "log"
            /\ UNCHANGED <<out, exit>>
       ELSE /\ out' = Append(out, Line("Operation cancelled.", 0))
            /\ pc' = "done"
            /\ exit' = "0"
    /\ UNCHANGED <<history, i, all_findings, backup, ran, engine_error, rvars, svars>>

\* scan_history: git log --format=%H lists the commits
GitLog ==
    /\ pc = "log"
    /\ history # <<>>
    /\ pc' = "scan"
    /\ i' = 0
    /\ all_findings' = <<>>
    /\ UNCHANGED <<history, answers, out, backup, ran, engine_error, exit, rvars, svars>>

\* git log fails where there is no commit: check_output raises, nothing catches it
GitLogFails ==
    /\ pc = "log"
    /\ history = <<>>
    /\ pc' = "done"
    /\ exit' = "1"
    /\ UNCHANGED <<history, answers, i, all_findings, out, backup, ran, engine_error,
                   rvars, svars>>

finding(commit, k) == [commit |-> commit, pattern |-> k]

\* scan_commit(commit) on the text of git show
scan_commit(commit, text) == {finding(commit, k) : k \in found_patterns(text)}

\* one turn of scan_history's loop: git show succeeds
ScanCommit ==
    /\ pc = "scan"
    /\ i < Len(history)
    /\ history[i + 1].show.kind = "text"
    /\ LET findings == scan_commit(i + 1, history[i + 1].show.text)
       IN  all_findings' = IF findings # {} THEN Append(all_findings, findings)
                           ELSE all_findings
    /\ i' = i + 1
    /\ UNCHANGED <<pc, history, answers, out, backup, ran, engine_error, exit, rvars, svars>>

\* git show fails: except subprocess.CalledProcessError prints and returns set()
ScanCommitError ==
    /\ pc = "scan"
    /\ i < Len(history)
    /\ history[i + 1].show.kind = "CalledProcessError"
    /\ out' = Append(out, Line("Error scanning commit", i + 1))
    /\ i' = i + 1
    /\ UNCHANGED <<pc, history, answers, all_findings, backup, ran, engine_error, exit,
                   rvars, svars>>

\* the output does not decode: UnicodeDecodeError is no CalledProcessError, so it
\* leaves scan_commit, scan_history and main
ScanCommitCrash ==
    /\ pc = "scan"
    /\ i < Len(history)
    /\ history[i + 1].show.kind = "UnicodeDecodeError"
    /\ pc' = "done"
    /\ exit' = "1"
    /\ UNCHANGED <<history, answers, i, all_findings, out, backup, ran, engine_error,
                   rvars, svars>>

\* the loop is over: scan_history returns, main reports
ScanComplete ==
    /\ pc = "scan"
    /\ i = Len(history)
    /\ IF all_findings # <<>>
       THEN /\ out' = out \o <<Line("Scan complete!", 0),
                               Line("Found sensitive data in the following commits:", 0)>>
            /\ pc' = "confirm"
            /\ UNCHANGED exit
       ELSE /\ out' = out \o <<Line("Scan complete!", 0),
                               Line("No sensitive data found in Git history.", 0)>>
            /\ pc' = "done"
            /\ exit' = "0"
    /\ UNCHANGED <<history, answers, i, all_findings, backup, ran, engine_error, rvars, svars>>

\* response = input("\nDo you want to clean the repository? (yes/no): ")
AskClean(response) ==
    /\ pc = "confirm"
    /\ answers' = Append(answers, response)
    /\ IF said_yes(response)
       THEN /\ pc' = "backup"
            /\ UNCHANGED <<out, exit>>
       ELSE /\ out' = Append(out, Line("Cleaning cancelled.", 0))
            /\ pc' = "done"
            /\ exit' = "0"
    /\ UNCHANGED <<history, i, all_findings, backup, ran, engine_error, rvars, svars>>

\* clean_history: date gives the name, os.makedirs makes the directory
MakeBackupDir ==
    /\ pc = "backup"
    /\ out' = Append(out, Line("Creating backup of current state...", 0))
    /\ ran' = Append(ran, "date")
    /\ backup' = "dir"
    /\ pc' = "bundle"
    /\ UNCHANGED <<history, answers, i, all_findings, engine_error, exit, rvars, svars>>

\* check_output(['date', ...]) or os.makedirs raises: clean_history and main end
MakeBackupDirFails ==
    /\ pc = "backup"
    /\ out' = Append(out, Line("Creating backup of current state...", 0))
    /\ ran' = Append(ran, "date")
    /\ pc' = "done"
    /\ exit' = "1"
    /\ UNCHANGED <<history, answers, i, all_findings, backup, engine_error, rvars, svars>>

\* subprocess.run(['git', 'bundle', 'create', ...]): the return code is not read
GitBundle(ok) ==
    /\ pc = "bundle"
    /\ ran' = Append(ran, "git bundle create")
    /\ backup' = IF ok THEN "bundle" ELSE backup
    /\ pc' = "paths"
    /\ UNCHANGED <<history, answers, i, all_findings, out, engine_error, exit, rvars, svars>>

\* what the engine leaves out given the value of --paths: the path it names,
\* and what lies under it
path_given(arg, path) ==
    \/ path = arg
    \/ /\ Len(path) > Len(arg)
       /\ SubSeq(path, 1, Len(arg) + 1) = arg \o <<"/">>

filter_paths(arg, tree) == {path \in tree : ~path_given(arg, path)}

\* subprocess.run(['git', 'filter-repo', '--force', '--invert-paths', '--paths',
\* sensitive_files_arg]): the return code is not read. The engine either stops
\* with an error, changing nothing, or filters by the one value it was given.
\* The print that follows the run is part of the step.
FilterPaths(ok) ==
    /\ pc = "paths"
    /\ out' = out \o <<Line("Cleaning sensitive files from history...", 0),
                        Line("Removing sensitive data patterns...", 0)>>
    /\ ran' = Append(ran, "git filter-repo --invert-paths")
    /\ IF ok
       THEN /\ history' = [c \in DOMAIN history |->
                              [history[c] EXCEPT !.tree = filter_paths(sensitive_files_arg, @)]]
            /\ UNCHANGED engine_error
       ELSE /\ engine_error' = TRUE
            /\ UNCHANGED history
    /\ pc' = "patterns"
    /\ UNCHANGED <<answers, i, all_findings, backup, exit, rvars, svars>>

\* the filter-repo runs so far that carry --replace-text
Replaced == Cardinality({j \in DOMAIN ran : ran[j] = "git filter-repo --replace-text"})

\* one turn of the loop over sensitive_patterns: subprocess.run(['git',
\* 'filter-repo', '--force', '--replace-text', '-'], input=...), the return code
\* not read. What the engine does to the blobs is its own; the model keeps the
\* paths of the trees and the outcome.
ReplaceText(ok) ==
    /\ pc = "patterns"
    /\ Replaced < Len(sensitive_patterns)
    /\ ran' = Append(ran, "git filter-repo --replace-text")
    /\ engine_error' = (engine_error \/ ~ok)
    /\ UNCHANGED <<pc, history, answers, i, all_findings, out, backup, exit, rvars, svars>>

\* clean_history returns; main prints its last lines and ends
Cleaned ==
    /\ pc = "patterns"
    /\ Replaced = Len(sensitive_patterns)
    /\ out' = Append(out, Line("Repository cleaned! Please:", 0))
    /\ pc' = "done"
    /\ exit' = "0"
    /\ UNCHANGED <<history, answers, i, all_findings, backup, ran, engine_error, rvars, svars>>

Next ==
    \/ \E response \in Responses : AskProceed(response)
    \/ GitLog
    \/ GitLogFails
    \/ ScanCommit
    \/ ScanCommitError
    \/ ScanCommitCrash
    \/ ScanComplete
    \/ \E response \in Responses : AskClean(response)
    \/ MakeBackupDir
    \/ MakeBackupDirFails
    \/ \E ok \in BOOLEAN : GitBundle(ok)
    \/ \E ok \in BOOLEAN : FilterPaths(ok)
    \/ \E ok \in BOOLEAN : ReplaceText(ok)
    \/ Cleaned

Spec == Init /\ [][Next]_vars

(* ------------------- the filter run of src/clean_repo.py ----------------- *)

MaxSegs == 3

\* The pieces the contents of a history are built of.
Segments == <<
    <<"u", "s", "e", " ", "a", "p", "i", "_", "k", "e", "y", ":", " ", "a", "b", "c", "d",
      "e", "f", "0", "1", "2", "3", "4", "5", "6", "7", "8", "9", " ">>,
    <<"h", "t", "t", "p", ":", "/", "/">>,
    <<"h", "t", "t", "p", ":", "/", "/", "h", "/", "x", "-">> \o Times("A", 24),
    <<"/", "x", "-">> \o Times("A", 24),
    <<"t", "o", "k", "e", "n", "_", "s", "3", "c", "r", "3", "t">>,
    <<"\\x00", "\\xff">> >>

Contents ==
    UNION {{Concat([j \in 1..n |-> Segments[c[j]]]) : c \in [1..n -> DOMAIN Segments]} :
           n \in 0..MaxSegs}

InitRedact ==
    /\ unit \in {"message", "blob"}
    /\ original \in Contents
    /\ data = original
    /\ before = original
    /\ pass = 1
    /\ run = 1
    /\ first = <<>>
    /\ IdleMain /\ IdleScan

\* for pattern in patterns: message = re.sub(pattern, b'***REMOVED***', message)
CleanMessagePass ==
    /\ unit = "message"
    /\ pass <= Len(patterns)
    /\ data' = clean_pass(patterns[pass], data)
    /\ before' = data
    /\ pass' = pass + 1
    /\ UNCHANGED <<unit, original, run, first, mvars, svars>>

\* for pattern in patterns: blob.data = re.sub(pattern, b'***REMOVED***', blob.data)
CleanBlobPass ==
    /\ unit = "blob"
    /\ pass <= Len(patterns)
    /\ data' = clean_pass(patterns[pass], data)
    /\ before' = data
    /\ pass' = pass + 1
    /\ UNCHANGED <<unit, original, run, first, mvars, svars>>

\* RepoFilter(filter_options).run() wrote the results back; the script is run
\* again, and the engine hands the rewritten content to the same callback.
RunAgain ==
    /\ unit # "none"
    /\ pass > Len(patterns)
    /\ run = 1
    /\ first' = data
    /\ run' = 2
    /\ pass' = 1
    /\ before' = data
    /\ UNCHANGED <<unit, original, data, mvars, svars>>

NextRedact == CleanMessagePass \/ CleanBlobPass \/ RunAgain

SpecRedact == InitRedact /\ [][NextRedact]_vars

(* ------------------------- scan_commit on one text ----------------------- *)

\* The pieces the text of a commit is built of.
ScanSegments == <<
    <<"a", "p", "i", "_", "k", "e", "y", ":", " ", "a", "b", "c", "d", "e", "f",
      "0", "1", "2", "3", "4", "5", "6", "7", "8", "9">>,
    <<"p", "a", "s", "s", "w", "o", "r", "d", "=", "h", "u", "n", "t", "e", "r", "2", "2">>,
    <<"V", "I", "T", "E", "_", "A", "P", "I", "_", "K", "E", "Y", "=", "a", "b", "c", "d",
      "1", "2", "3", "4">>,
    <<"h", "t", "t", "p", "s", ":", "/", "/", "u", "s", "e", "r", ":", "p", "w", "@", "h",
      "o", "s", "t", ".", "c", "o", "m", "/", "r", "e", "p", "o">>,
    <<"t", "o", "k", "e", "n", ":", " ", "s", "h", "o", "r", "t">>,
    <<"\n">>,
    <<"+">> >>

ScanTexts ==
    UNION {{Concat([j \in 1..n |-> ScanSegments[c[j]]]) : c \in [1..n -> DOMAIN ScanSegments]} :
           n \in 0..MaxSegs}

InitScan ==
    /\ diff \in ScanTexts
    /\ found_sensitive = {}
    /\ returned = FALSE
    /\ IdleMain /\ IdleRedact

\* scan_commit once git show has given diff
ScanText ==
    /\ ~returned
    /\ found_sensitive' = found_patterns(diff)
    /\ returned' = TRUE
    /\ UNCHANGED <<diff, mvars, rvars>>

NextScan == ScanText

SpecScan == InitScan /\ [][NextScan]_vars

(* ----------------------- properties of the filter run -------------------- *)

\* s from position pos on, with each of the spans ms (<<start, end>>, left to
\* right, not overlapping) replaced by repl
RECURSIVE Splice(_, _, _, _)
Splice(s, ms, repl, pos) ==
    IF ms = <<>> THEN SubSeq(s, pos, Len(s))
    ELSE SubSeq(s, pos, Head(ms)[1] - 1) \o repl \o Splice(s, Tail(ms), repl, Head(ms)[2])

\* the callback has gone through all the patterns
PassesDone == unit # "none" /\ pass > Len(patterns)

\* C4: redaction is idempotent: the run repeated on the content the first run
\* wrote back changes nothing, for a commit message and for a blob.
C4_RedactIdempotent == (run = 2 /\ PassesDone) => data = first

ScenarioA == Segments[1]
ScenarioARedacted == <<"u", "s", "e", " ">> \o REMOVED \o <<" ">>

\* C9: redaction changes the matched spans only: the message of scenario A, for
\* which the scan has one finding, of an API key pattern, comes out with the
\* marker in the place of `api_key: abcdef0123456789` and the rest as it was;
\* content no pattern matches, binary content too, comes out unchanged.
C9_OnlyMatchedSpansChange ==
    (run = 1 /\ PassesDone) =>
        /\ (unit = "message" /\ original = ScenarioA) =>
               /\ Cardinality(found_patterns(original)) = 1
               /\ found_patterns(original) \subseteq ApiKeyPatterns
               /\ data = ScenarioARedacted
        /\ (\A k \in DOMAIN patterns : finditer(patterns[k], original, 1) = <<>>) =>
               data = original

(* ------------------------- properties of scan_commit --------------------- *)

\* Matching as a relation, with no order and no backtracking: the positions
\* where a string that r matches can end when it starts at one of the
\* positions I of s.
RECURSIVE EndSet(_, _, _), CatSet(_, _, _, _), RepSet(_, _, _, _, _)
EndSet(r, s, I) ==
    CASE r.t = "set"  -> {j + 1 : j \in {m \in I : m <= Len(s) /\ s[m] \in r.cs}}
      [] r.t = "nset" -> {j + 1 : j \in {m \in I : m <= Len(s) /\ s[m] \notin r.cs}}
      [] r.t = "bol"  -> {j \in I : j = 1 \/ (j > 1 /\ s[j - 1] = "\n")}
      [] r.t = "eol"  -> {j \in I : j = Len(s) + 1 \/ (j <= Len(s) /\ s[j] = "\n")}
      [] r.t = "cat"  -> CatSet(r.rs, 1, s, I)
      [] r.t = "alt"  -> UNION {EndSet(r.rs[k], s, I) : k \in DOMAIN r.rs}
      [] r.t = "rep"  -> RepSet(r.rs[1], r.lo, r.hi, s, I)

CatSet(rs, k, s, I) ==
    IF k > Len(rs) \/ I = {} THEN I ELSE CatSet(rs, k + 1, s, EndSet(rs[k], s, I))

RepSet(r, lo, hi, s, I) ==
    IF I = {} \/ hi = 0 THEN I
    ELSE LET rest == RepSet(r, IF lo = 0 THEN 0 ELSE lo - 1,
                            IF hi = NoMax THEN NoMax ELSE hi - 1, s, EndSet(r, s, I))
         IN  IF lo = 0 THEN I \cup rest ELSE rest

\* the text has in it a string that the pattern matches
Contains(r, s) == EndSet(r, s, 1..(Len(s) + 1)) # {}

\* C6: the scan is complete and sound for each pattern: scan_commit has a
\* finding of a pattern if and only if the text holds a string the pattern
\* matches, and a text with no match of any pattern gives the empty set.
C6_ScanSoundAndComplete ==
    returned =>
        /\ \A k \in DOMAIN sensitive_patterns :
               k \in found_sensitive <=> Contains(sensitive_patterns[k], diff)
        /\ (\A k \in DOMAIN sensitive_patterns : ~Contains(sensitive_patterns[k], diff)) =>
               found_sensitive = {}

\* scan_commit has returned findings of some patterns and not of others, the
\* match of one of them not at the start of the text
C6_SomePatternsFound ==
    /\ returned
    /\ 9 \in found_sensitive
    /\ 1 \notin found_sensitive
    /\ Ends(sensitive_patterns[9], diff, 1) = <<>>

(* ---------------------------- properties of main ------------------------- *)

Yes == <<"y", "e", "s">>
CleanedLine == "Repository cleaned! Please:"

\* clean_history has been called
CleanInvoked ==
    pc \in {"backup", "bundle", "paths", "patterns"} \/ ran # <<>> \/ backup # "none"

\* the runs of git filter-repo so far: the steps that rewrite the history
FilterRepoRuns ==
    {j \in DOMAIN ran : ran[j] \in {"git filter-repo --invert-paths",
                                     "git filter-repo --replace-text"}}

\* the first prompt was answered with yes, so that scan_history was called
ScanCalled == answers # <<>> /\ lower(answers[1]) = Yes

\* scan_history is over, by its return or by an exception
ScanOver == ScanCalled /\ pc \notin {"log", "scan"}

\* C1: no run of git filter-repo starts unless the backup bundle has been
\* written and verified readable before; a backup that was not made or not
\* verified stops clean_history before any step that rewrites the history.
C1_BackupBeforeRewrite ==
    \A j \in FilterRepoRuns :
        /\ backup = "bundle"
        /\ \E k \in 1..(j - 1) : ran[k] = "git bundle verify"

\* C2: clean_history is called only after the user answered yes (in any case
\* of the letters) to both prompts, and an answer other than yes ends the
\* run with no backup made and nothing run on the repository.
C2_MutationOnlyAfterYes ==
    /\ CleanInvoked =>
           /\ Len(answers) = 2
           /\ \A j \in DOMAIN answers : lower(answers[j]) = Yes
    /\ (\E j \in DOMAIN answers : lower(answers[j]) # Yes) =>
           /\ pc = "done"
           /\ exit = "0"
           /\ backup = "none"
           /\ ran = <<>>

\* clean_history has run git filter-repo, the user having typed Yes and yes
C2_CleanAfterTwoYes ==
    /\ FilterRepoRuns # {}
    /\ Len(answers) = 2
    /\ answers[1] = <<"Y", "e", "s">>
    /\ backup = "bundle"

\* the last component of a path
Basename(path) ==
    IF \E j \in DOMAIN path : path[j] = "/"
    THEN LET last == CHOOSE j \in DOMAIN path :
                         path[j] = "/" /\ \A m \in (j + 1)..Len(path) : path[m] # "/"
         IN  SubSeq(path, last + 1, Len(path))
    ELSE path

\* a rule of sensitive_files holds of a path: the file has the rule's name, or
\* the ending a rule *.<ending> gives
RuleMatches(rule, path) ==
    LET name == Basename(path)
    IN  IF Head(rule) = "*"
        THEN /\ Len(name) >= Len(rule) - 1
             /\ SubSeq(name, Len(name) - Len(rule) + 2, Len(name)) = Tail(rule)
        ELSE name = rule

SensitivePath(path) == \E k \in DOMAIN sensitive_files : RuleMatches(sensitive_files[k], path)

\* C3: after the rewrite is over, no tree of any commit has a path that a
\* rule of sensitive_files matches, and the other files are in their trees as
\* before.
C3_NoSensitivePathLeft ==
    (pc = "done" /\ Printed(CleanedLine) /\ ~engine_error) =>
        \A c \in DOMAIN history :
            /\ \A path \in history[c].tree : ~SensitivePath(path)
            /\ AppPy \in history[c].tree

\* C7: a commit that cannot be read or decoded does not end the walk:
\* scan_history goes through every commit, the failure is printed for each
\* failing commit, and the findings of every commit that was read are in
\* what it returns.
C7_WalkSurvivesFailure ==
    (ScanOver /\ history # <<>>) =>
        /\ i = Len(history)
        /\ \A c \in DOMAIN history :
               IF history[c].show.kind = "text"
               THEN LET findings == scan_commit(c, history[c].show.text)
                    IN  findings # {} => \E j \in DOMAIN all_findings : all_findings[j] = findings
               ELSE \E j \in DOMAIN out : out[j] = Line("Error scanning commit", c)

\* C8: when a run of git filter-repo ended with an error, the run of main does
\* not report success: "Repository cleaned!" is printed only when every step
\* of the rewrite succeeded.
C8_NoSuccessAfterEngineError == Printed(CleanedLine) => ~engine_error

\* the scan met an error: git log failed, or git show failed or gave text
\* that does not decode for a commit the walk came to
ScanFailed ==
    \/ history = <<>>
    \/ \E c \in DOMAIN history : c <= i + 1 /\ history[c].show.kind # "text"

\* C10: a run that scans and does not clean ends with exit code 0 exactly when
\* there was no finding and no error, and with another code otherwise.
C10_ExitCodeTellsFindings ==
    (pc = "done" /\ ScanCalled /\ ~CleanInvoked) =>
        (exit = "0" <=> (all_findings = <<>> /\ ~ScanFailed))
====
